---- MODULE Spec2Model ----
(***************************************************************************)
(* Model of the mention-reply bot: the polling loop of                     *)
(* TwitterClientInteractions (start, handleTwitterInteractions,            *)
(* handleTweet, sendTweet), the startup sequence of TwitterClientBase      *)
(* (init, loadLatestCheckedTweetId, populateTimeline), the segmenter       *)
(* (splitTweetContent, splitLongLine) and the platform calls of both with  *)
(* the request queue they share.                                           *)
(*                                                                         *)
(* JavaScript runs the callbacks of one process one at a time: the code    *)
(* between two awaits is one atomic step.  Every action below is one such  *)
(* continuation, from the settling of the awaited call to the next await.  *)
(***************************************************************************)
EXTENDS Integers, Sequences, FiniteSets, Bags, TLC

(***************************************************************************)
(* Bounds of the model.                                                    *)
(***************************************************************************)
\* ticks that may be in flight at once (the timer puts no limit on them)
MaxOverlap == 2
\* chunks the segmenter returns for one reply
MaxSegments == 2
\* posts the platform accepts before it rejects every further post call
MaxPosts == 2
\* mentions of the platform that are not of kind "ok"
MaxFaulty == 1

(***************************************************************************)
(* The platform's data.                                                    *)
(***************************************************************************)
\* ids of the mentions matching the search; "10" sorts before "9" as a string
MentionIds == {9, 10}
\* the id the platform gives to the first post the bot creates
FirstReplyId == 100
\* what a mention looks like to handleTweet:
\*   ok        a reply to a post of an account that has posts
\*   self      authored by the bot (tweet.userId = TWITTER_ID)
\*   noText    tweet.text is empty
\*   noParent  getTweet(inReplyToStatusId) yields nothing
\*   noTweets  the parent's author has no posts: AnalyzeProfile throws
Kinds == {"ok", "self", "noText", "noParent", "noTweets"}
\* the watermark the cache holds when the process starts (0: none): the
\* cache is the in-memory store of CacheModule.register, empty at start
PersistedAtStart == {0}
\* the documents the collection may hold when the process starts: the
\* database outlives the process
StoredAtStart == {SetToBag(S) : S \in SUBSET MentionIds}

Slots == 1..MaxOverlap

VARIABLES
    lastCheckedTweetId,  \* TwitterClientBase.lastCheckedTweetId, 0 for null
    cachedTweetId,       \* cache key latest_checked_tweet_id, 0 when absent
    profile,             \* TRUE once TwitterClientBase.profile is set
    memory,              \* the memoryModel collection: a bag of document ids
    initPc,              \* where TwitterClientBase.init() stands
    timer,               \* TRUE while a setTimeout of the loop is pending
    tick,                \* the calls of handleTwitterInteractions in flight
    kind,                \* the platform's mentions: id -> kind
    posts,               \* the posts the bot created on the platform
    nextId,              \* the id the platform gives to the next post
    segIn,               \* the text handed to splitTweetContent
    segOut,              \* the chunks it returned
    segDone,             \* TRUE once it has run
    tasks,               \* the tasks given to requestQueue.add, in that order
    calls,               \* the platform calls that are outstanding
    proc,                \* the callers of the platform: init() and the ticks
    scIn,                \* the arguments handed to AnalyzeProfile
    scRuns,              \* the runs of AnalyzeProfile on them, in order
    lineIn,              \* the line and the limit handed to splitLongLine
    lineOut,             \* the pieces it returned, and whether it has run
    insIn,               \* the profile, posts and followers that are scored
    insOut               \* the ratio, bio, content and trust parts returned

segVars == <<segIn, segOut, segDone>>

queueVars == <<tasks, calls, proc>>

scoreVars == <<scIn, scRuns>>

lineVars == <<lineIn, lineOut>>

insightVars == <<insIn, insOut>>

\* the variables of the functions that are checked on their own
pureVars == <<segVars, scoreVars, lineVars, insightVars>>

vars == <<lastCheckedTweetId, cachedTweetId, profile, memory, initPc,
          timer, tick, kind, posts, nextId, segVars, queueVars,
          scoreVars, lineVars, insightVars>>

\* the scorer and splitLongLine have not been called
NoArguments == [username |-> "", tweets |-> <<>>, follower |-> <<>>]
NoLine == [line |-> <<>>, maxLength |-> 0]
NotSplit == [done |-> FALSE, chunks |-> <<>>]
NoParts == [followersCount |-> 0, followingCount |-> 0, biography |-> <<>>,
            tweets |-> <<>>, follower |-> <<>>, username |-> ""]
NotAnalyzed == [done |-> FALSE]

\* the caller that is init(); the other callers are the ticks
InitCaller == 0
Callers == {InitCaller} \cup Slots

\* a caller that has not begun: the call it awaits, the task it awaits (0:
\* none), whether the search's timer has fired, the outcome it got last
IdleCaller == [pc |-> "idle", task |-> 0, timedOut |-> FALSE, got |-> "none"]

(***************************************************************************)
(* Ids are decimal strings in the program; the sort compares them as       *)
(* strings.                                                                *)
(***************************************************************************)
RECURSIVE Digits(_)
Digits(n) == IF n < 10 THEN <<n>> ELSE Append(Digits(n \div 10), n % 10)

RECURSIVE LexCompare(_, _)
LexCompare(a, b) ==
    IF a = <<>> /\ b = <<>> THEN 0
    ELSE IF a = <<>> THEN -1
    ELSE IF b = <<>> THEN 1
    ELSE IF Head(a) < Head(b) THEN -1
    ELSE IF Head(a) > Head(b) THEN 1
    ELSE LexCompare(Tail(a), Tail(b))

\* a.id.localeCompare(b.id)
LocaleCompare(a, b) == LexCompare(Digits(a), Digits(b))

RECURSIVE Insert(_, _)
Insert(x, s) ==
    IF s = <<>> THEN <<x>>
    ELSE IF LocaleCompare(x, Head(s)) < 0 THEN <<x>> \o s
    ELSE <<Head(s)>> \o Insert(x, Tail(s))

RECURSIVE SortCandidates(_)
\* uniqueTweetCandidates.sort((a, b) => a.id.localeCompare(b.id)); the
\* .filter(...) that follows builds a new array that is thrown away
SortCandidates(S) ==
    IF S = {} THEN <<>>
    ELSE LET x == CHOOSE y \in S : TRUE
         IN  Insert(x, SortCandidates(S \ {x}))

Range(s) == {s[j] : j \in 1..Len(s)}

(***************************************************************************)
(* One call of handleTwitterInteractions.                                  *)
(***************************************************************************)
IdleTick ==
    [pc |-> "idle", cands |-> <<>>, i |-> 0, nChunks |-> 0, k |-> 0,
     previousTweetId |-> 0, sentTweets |-> <<>>, known |-> FALSE]

Ended(r) == r.pc = "idle"

\* a guard that every candidate passes
AnyId(id, wm) == TRUE

\* the guard of the loop body
AboveWatermark(id, wm) == wm = 0 \/ id > wm

\* the first candidate at or after index j that passes the guard
NextIndex(cands, j, wm) ==
    LET J == {n \in j..Len(cands) : AboveWatermark(cands[n], wm)}
    IN  IF J = {} THEN Len(cands) + 1
        ELSE CHOOSE n \in J : \A n2 \in J : n <= n2

\* a lookup that finds no document
FindOneByOtherKey(mem, id) == FALSE

\* existingResponse / tweetExists: memoryModel.findOne({id})
FindOne(mem, id) == BagIn(id, mem)

\* the catch block of handleTwitterInteractions: log, the tick ends
CatchError(r) == IdleTick

\* the tick ends past its last statement
Finished(r) == IdleTick

\* the tick goes on with the loop from index j with the watermark wm: to
\* the next findOne, or past the loop to cacheLatestCheckedTweetId
Continue(t, r, j, wm) ==
    LET n == NextIndex(r.cands, j, wm)
    IN  /\ lastCheckedTweetId' = wm
        /\ IF n <= Len(r.cands)
           THEN /\ tick' = [tick EXCEPT ![t] = [r EXCEPT !.i = n, !.pc = "existing"]]
                /\ UNCHANGED cachedTweetId
           ELSE IF wm = 0
           THEN /\ tick' = [tick EXCEPT ![t] = Finished(r)]
                /\ UNCHANGED cachedTweetId
           ELSE IF profile
           THEN /\ tick' = [tick EXCEPT ![t] = Finished(r)]
                /\ cachedTweetId' = wm
           ELSE \* this.profile.username with profile undefined: TypeError
                /\ tick' = [tick EXCEPT ![t] = CatchError(r)]
                /\ UNCHANGED cachedTweetId


(***************************************************************************)
(* The state after construction: TwitterClientService's constructor has    *)
(* called init() and start() without awaiting either, so init stands at    *)
(* its first await, the first tick at its search, and the timer is armed.  *)
(***************************************************************************)
Init ==
    /\ lastCheckedTweetId = 0
    /\ cachedTweetId \in PersistedAtStart
    /\ profile = FALSE
    /\ memory \in StoredAtStart
    /\ initPc = "login"
    /\ timer = TRUE
    /\ tick = [t \in Slots |-> IF t = 1 THEN [IdleTick EXCEPT !.pc = "search"]
                                        ELSE IdleTick]
    /\ kind \in {f \in [MentionIds -> Kinds] :
                    Cardinality({id \in MentionIds : f[id] # "ok"}) <= MaxFaulty}
    /\ posts = {}
    /\ nextId = FirstReplyId
    /\ segIn = <<>>
    /\ segOut = <<>>
    /\ segDone = FALSE
    /\ tasks = <<>>
    /\ calls = {}
    /\ proc = [c \in Callers |-> IdleCaller]
    /\ scIn = NoArguments
    /\ scRuns = <<>>
    /\ lineIn = NoLine
    /\ lineOut = NotSplit
    /\ insIn = NoParts
    /\ insOut = NotAnalyzed

(***************************************************************************)
(* TwitterClientBase.init()                                                *)
(***************************************************************************)
\* login and fetchProfile; init throws when the profile cannot be loaded
InitLogin ==
    /\ initPc = "login"
    /\ \/ /\ profile' = TRUE
          /\ initPc' = "load"
       \/ /\ initPc' = "failed"
          /\ UNCHANGED profile
    /\ UNCHANGED <<pureVars, queueVars, lastCheckedTweetId, cachedTweetId, memory, timer,
                   tick, kind, posts, nextId>>

LoadLatestCheckedTweetId ==
    /\ initPc = "load"
    /\ lastCheckedTweetId' =
           IF cachedTweetId # 0 THEN cachedTweetId ELSE lastCheckedTweetId
    /\ initPc' = "populate"
    /\ UNCHANGED <<pureVars, queueVars, cachedTweetId, profile, memory, timer, tick, kind,
                   posts, nextId>>

\* a lookup by a field the documents do not have
NoExistingMemoryIds(mem, S) == {}

\* memoryModel.find({id: {$in: ids}}): the ids among S the collection has
ExistingMemoryIds(mem, S) == {id \in S : FindOne(mem, id)}

\* populateTimeline: no timeline is cached when the process starts, so it
\* searches for the mentions, looks up the ones the collection already has
\* and saves a document for each of the others
PopulateTimeline ==
    /\ initPc = "populate"
    /\ \E S \in SUBSET MentionIds :
           memory' = memory (+) SetToBag(S \ ExistingMemoryIds(memory, S))
    /\ initPc' = "done"
    /\ UNCHANGED <<pureVars, queueVars, lastCheckedTweetId, cachedTweetId, profile, timer, tick,
                   kind, posts, nextId>>

(***************************************************************************)
(* TwitterClientInteractions                                               *)
(***************************************************************************)
\* a loop that does not arm the timer again
NoSetTimeout == FALSE

\* setTimeout(handleTwitterInteractionsLoop, interval): a timer is pending
SetTimeout == TRUE

\* the timer callback of start(): it calls handleTwitterInteractions without
\* awaiting it and arms the timer again
HandleTwitterInteractionsLoop ==
    /\ timer
    /\ \E t \in Slots :
        /\ Ended(tick[t])
        /\ \A u \in Slots : Ended(tick[u]) => t <= u
        /\ tick' = [tick EXCEPT ![t] = [IdleTick EXCEPT !.pc = "search"]]
    /\ timer' = SetTimeout
    /\ UNCHANGED <<pureVars, queueVars, lastCheckedTweetId, cachedTweetId, profile, memory, initPc,
                   kind, posts, nextId>>

\* fetchSearchTweets settles (with no tweets when the call failed or timed
\* out); the candidates are sorted and the loop begins
FetchSearchTweets(t) ==
    /\ tick[t].pc = "search"
    /\ \E S \in SUBSET MentionIds :
        LET r == [tick[t] EXCEPT !.cands = SortCandidates(S),
                                 !.known = \A id \in S : BagIn(id, memory)]
        IN  Continue(t, r, 1, lastCheckedTweetId)
    /\ UNCHANGED <<pureVars, queueVars, profile, memory, initPc, timer, kind, posts, nextId>>

\* a handleTweet without the check of the author
ReturnsWithoutText(k) == k = "noText"

\* handleTweet returns before any call for a tweet of the bot itself
\* (tweet.userId === process.env.TWITTER_ID) and for one without text
ReturnsAtOnce(k) == k \in {"self", "noText"}

\* the findOne of the loop settles: skip the tweet, or enter handleTweet,
\* which returns at once for a tweet of the bot or one without text
ExistingResponse(t) ==
    LET r == tick[t]
        m == r.cands[r.i]
    IN  /\ r.pc = "existing"
        /\ IF FindOne(memory, m)
           THEN \* continue: the watermark stays
                Continue(t, r, r.i + 1, lastCheckedTweetId)
           ELSE IF ReturnsAtOnce(kind[m])
           THEN \* handleTweet returns at once
                Continue(t, r, r.i + 1, m)
           ELSE /\ tick' = [tick EXCEPT ![t] = [r EXCEPT !.pc = "handleTweet"]]
                /\ UNCHANGED <<lastCheckedTweetId, cachedTweetId>>
        /\ UNCHANGED <<pureVars, queueVars, profile, memory, initPc, timer, kind, posts, nextId>>

\* message.content.text where message.content is tweet.text, a string: a
\* string has no property "text", so the value is undefined
ContentText(content) == IF content.isObject THEN content.text ELSE ""

\* saveRequestMessage: a document is written only when message.content.text
\* is truthy (and the latest document of the room has another content)
SaveRequestMessage(mem, message) ==
    IF ContentText(message.content) # ""
    THEN mem (+) SetToBag({message.id})
    ELSE mem

\* handleTweet from its findOne to sendTweet's first post call: the tweet is
\* "saved" when the collection does not have it; getTweet, the timeline, the
\* followers and AnalyzeProfile settle.  Without a parent post, reading
\* parentTweet.username throws; AnalyzeProfile rethrows what it catches
\* (tweets[0].text of an empty timeline); nothing between there and the
\* tick's catch block handles either.  On success sendTweet splits the text.
HandleTweet(t) ==
    LET r == tick[t]
        m == r.cands[r.i]
    IN  /\ r.pc = "handleTweet"
        /\ memory' =
              IF ~FindOne(memory, m)
              THEN SaveRequestMessage(memory,
                       [id |-> m, content |-> [isObject |-> FALSE, text |-> "t"]])
              ELSE memory
        /\ IF kind[m] \in {"noParent", "noTweets"}
           THEN tick' = [tick EXCEPT ![t] = CatchError(r)]
           ELSE \E n \in 1..MaxSegments :
                  tick' = [tick EXCEPT ![t] =
                              [r EXCEPT !.pc = "send", !.nChunks = n, !.k = 0,
                                        !.previousTweetId = m,
                                        !.sentTweets = <<>>]]
        /\ UNCHANGED <<pureVars, queueVars, lastCheckedTweetId, cachedTweetId, profile, initPc,
                       timer, kind, posts, nextId>>

\* every chunk in reply to the tweet the dispatch began with
KeepReplyRoot(prev, ok, id) == prev

\* previousTweetId after the response to a chunk was examined
NextPreviousTweetId(prev, ok, id) == IF ok THEN id ELSE prev

\* the platform's answers to a post call: the created post, a body without
\* a result, or a rejection (the only answer once MaxPosts posts exist)
SendOutcomes == IF nextId < FirstReplyId + MaxPosts
                THEN {"ok", "noResult", "throw"}
                ELSE {"throw"}

\* the queue task of one chunk settles and its response is examined; the
\* wait that follows is over when the next chunk is submitted
SendChunk(t) ==
    LET r == tick[t]
        m == r.cands[r.i]
    IN  /\ r.pc = "send"
        /\ \E o \in SendOutcomes :
            LET sent == [id |-> nextId, inReplyTo |-> r.previousTweetId]
                r2 == [r EXCEPT !.k = r.k + 1,
                                !.pc = IF r.k + 1 < r.nChunks THEN "send" ELSE "wait",
                                !.previousTweetId =
                                    NextPreviousTweetId(r.previousTweetId, o = "ok", nextId),
                                !.sentTweets = IF o = "ok" THEN Append(@, nextId) ELSE @]
            IN  /\ tick' = [tick EXCEPT ![t] =
                               IF o = "throw"
                               THEN CatchError(r)
                               ELSE r2]
                /\ posts' = IF o = "ok" THEN posts \cup {sent} ELSE posts
                /\ nextId' = IF o = "ok" THEN nextId + 1 ELSE nextId
        /\ UNCHANGED <<pureVars, queueVars, lastCheckedTweetId, cachedTweetId, profile, memory,
                       initPc, timer, kind>>

\* the wait after the last chunk is over: sendTweet and handleTweet return,
\* the watermark is set to the tweet's id and the loop goes on
HandleTweetReturns(t) ==
    LET r == tick[t]
        m == r.cands[r.i]
    IN  /\ r.pc = "wait"
        /\ Continue(t, r, r.i + 1, m)
        /\ UNCHANGED <<pureVars, queueVars, profile, memory, initPc, timer, kind, posts, nextId>>

TickStep(t) ==
    \/ FetchSearchTweets(t)
    \/ ExistingResponse(t)
    \/ HandleTweet(t)
    \/ SendChunk(t)
    \/ HandleTweetReturns(t)

InitStep ==
    \/ InitLogin
    \/ LoadLatestCheckedTweetId
    \/ PopulateTimeline

Next ==
    \/ InitStep
    \/ HandleTwitterInteractionsLoop
    \/ \E t \in Slots : TickStep(t)

Spec == Init /\ [][Next]_vars

\* every awaited call settles, and the timer fires
FairSpec ==
    /\ Spec
    /\ WF_vars(InitStep)
    /\ WF_vars(HandleTwitterInteractionsLoop)
    /\ \A t \in Slots : WF_vars(TickStep(t))

(***************************************************************************)
(* The segmenter.  A string is a sequence of one-character strings; its    *)
(* length is the length of the sequence.                                   *)
(***************************************************************************)
MAX_TWEET_LENGTH == 280
\* the slack below maxLength at which a piece of a long line is pushed
PieceSlack == 50

Whitespace == {" ", "\n"}
SentenceEnd == {".", "!", "?"}
\* characters matching [\p{Emoji_Presentation}\p{Emoji}‍]: "E" stands for
\* a pictograph of one code unit; the digits are \p{Emoji} too
EmojiChars == {"E", "1"}

Min(S) == CHOOSE x \in S : \A y \in S : x <= y
Rep(c, n) == [j \in 1..n |-> c]

\* the first index at or after from whose character is (is not) in S, or
\* Len(str) + 1
FirstIn(str, from, S) ==
    IF \E j \in from..Len(str) : str[j] \in S
    THEN CHOOSE j \in from..Len(str) :
             str[j] \in S /\ \A n \in from..(j - 1) : str[n] \notin S
    ELSE Len(str) + 1

FirstNotIn(str, from, S) ==
    IF \E j \in from..Len(str) : str[j] \notin S
    THEN CHOOSE j \in from..Len(str) :
             str[j] \notin S /\ \A n \in from..(j - 1) : str[n] \in S
    ELSE Len(str) + 1

\* the last index whose character is not in S, or 0
LastNotIn(str, S) ==
    IF \E j \in 1..Len(str) : str[j] \notin S
    THEN CHOOSE j \in 1..Len(str) :
             str[j] \notin S /\ \A n \in (j + 1)..Len(str) : str[n] \in S
    ELSE 0

\* String.prototype.trim
Trim(str) == SubSeq(str, FirstNotIn(str, 1, Whitespace), LastNotIn(str, Whitespace))

\* content.split('\n'): the pieces between the newlines, empty ones included
RECURSIVE SplitNewline(_, _)
SplitNewline(str, from) ==
    LET p == FirstIn(str, from, {"\n"})
    IN  IF p > Len(str) THEN <<SubSeq(str, from, Len(str))>>
        ELSE <<SubSeq(str, from, p - 1)>> \o SplitNewline(str, p + 1)

\* content.split('\n').map((line) => line.trim())
Lines(content) ==
    LET raw == SplitNewline(content, 1)
    IN  [k \in 1..Len(raw) |-> Trim(raw[k])]

\* sentence.split(/\s+/): the pieces between the runs of whitespace; a
\* leading or trailing run leaves an empty first or last piece
RECURSIVE WordsFrom(_, _)
WordsFrom(str, from) ==
    LET p == FirstIn(str, from, Whitespace)
    IN  IF p > Len(str) THEN <<SubSeq(str, from, Len(str))>>
        ELSE <<SubSeq(str, from, p - 1)>>
                 \o WordsFrom(str, FirstNotIn(str, p, Whitespace))

Words(sentence) == WordsFrom(sentence, 1)

\* line.match(/[^.!?]+[.!?]*|[^.!?]+$/g) || [line]: each match is a longest
\* run of other characters with the sentence ends that follow it; sentence
\* ends before the first other character are in no match
RECURSIVE SentencesFrom(_, _)
SentencesFrom(line, from) ==
    LET a == FirstNotIn(line, from, SentenceEnd)
        b == FirstIn(line, a, SentenceEnd)
        c == FirstNotIn(line, b, SentenceEnd)
    IN  IF a > Len(line) THEN <<>>
        ELSE <<SubSeq(line, a, c - 1)>> \o SentencesFrom(line, c)

Sentences(line) ==
    LET m == SentencesFrom(line, 1)
    IN  IF m = <<>> THEN <<line>> ELSE m

\* a word that is not sliced
Unsliced(word, start, maxLength) == <<word>>

\* the slices of a word longer than maxLength
RECURSIVE Slices(_, _, _)
Slices(word, start, maxLength) ==
    IF start > Len(word) THEN <<>>
    ELSE <<SubSeq(word, start, Min({Len(word), start + maxLength - 1}))>>
             \o Slices(word, start + maxLength, maxLength)

Joined(cur, sep, item) == cur \o (IF cur # <<>> THEN sep ELSE <<>>) \o item

\* the loop over the words of a sentence longer than maxLength; st is
\* [chunks, currentChunk]
RECURSIVE WordLoop(_, _, _, _)
WordLoop(words, k, st, maxLength) ==
    IF k > Len(words) THEN st
    ELSE LET word == words[k]
             cur == st.currentChunk
         IN  IF Len(Trim(cur \o <<" ">> \o word)) <= maxLength
             THEN WordLoop(words, k + 1,
                      [st EXCEPT !.currentChunk = Joined(cur, <<" ">>, word)],
                      maxLength)
             ELSE LET chunks1 == IF cur # <<>> THEN Append(st.chunks, Trim(cur))
                                 ELSE st.chunks
                  IN  IF Len(word) <= maxLength
                      THEN WordLoop(words, k + 1,
                               [chunks |-> chunks1, currentChunk |-> word],
                               maxLength)
                      ELSE WordLoop(words, k + 1,
                               [chunks |-> chunks1 \o Slices(word, 1, maxLength),
                                currentChunk |-> <<>>],
                               maxLength)

\* the loop over the sentences of the line
RECURSIVE SentenceLoop(_, _, _, _)
SentenceLoop(sentences, k, st, maxLength) ==
    IF k > Len(sentences) THEN st
    ELSE LET sentence == sentences[k]
             cur == st.currentChunk
         IN  IF Len(Trim(cur \o <<" ">> \o sentence)) <= maxLength
             THEN SentenceLoop(sentences, k + 1,
                      [st EXCEPT !.currentChunk = Joined(cur, <<" ">>, sentence)],
                      maxLength)
             ELSE LET chunks1 == IF cur # <<>> THEN Append(st.chunks, Trim(cur))
                                 ELSE st.chunks
                  IN  IF Len(sentence) <= maxLength
                      THEN SentenceLoop(sentences, k + 1,
                               [chunks |-> chunks1, currentChunk |-> sentence],
                               maxLength)
                      ELSE SentenceLoop(sentences, k + 1,
                               WordLoop(Words(sentence), 1,
                                   [chunks |-> chunks1, currentChunk |-> <<>>],
                                   maxLength),
                               maxLength)

\* a line that is not split
WholeLine(line, maxLength) == <<line>>

splitLongLine(line, maxLength) ==
    LET st == SentenceLoop(Sentences(line), 1,
                  [chunks |-> <<>>, currentChunk |-> <<>>], maxLength)
    IN  IF st.currentChunk # <<>>
        THEN Append(st.chunks, Trim(st.currentChunk))
        ELSE st.chunks

\* /^[\p{Emoji_Presentation}\p{Emoji}‍]+.*:$/u
isHeader(line) ==
    /\ Len(line) >= 2
    /\ line[1] \in EmojiChars
    /\ line[Len(line)] = ":"

StartsWithDash(line) == Len(line) >= 2 /\ line[1] = "-" /\ line[2] = " "

isSubItem(line, prevLine) ==
    \/ StartsWithDash(line)
    \/ (isHeader(prevLine) /\ ~isHeader(line))

Ellipsis == <<".", ".", ".">>

\* the loop over the pieces of a long line; st is [tweets, currentTweet]
RECURSIVE PieceLoop(_, _, _, _, _)
PieceLoop(chunks, j, st, isLastLine, maxLength) ==
    IF j > Len(chunks) THEN st
    ELSE LET chunk == chunks[j]
             isLastChunk == j = Len(chunks) /\ isLastLine
             cur == st.currentTweet
             over == cur # <<>> /\ Len(cur \o <<"\n">> \o chunk) > maxLength
             tweets1 == IF over THEN Append(st.tweets, cur \o Ellipsis)
                        ELSE st.tweets
             cur1 == IF over THEN chunk ELSE Joined(cur, <<"\n">>, chunk)
             push == \/ isLastChunk
                     \/ /\ Len(cur1) > maxLength - PieceSlack
                        /\ (j < Len(chunks) \/ ~isLastLine)
         IN  PieceLoop(chunks, j + 1,
                 IF push
                 THEN [tweets |-> Append(tweets1,
                                     cur1 \o (IF isLastChunk THEN <<>> ELSE Ellipsis)),
                       currentTweet |-> <<>>]
                 ELSE [tweets |-> tweets1, currentTweet |-> cur1],
                 isLastLine, maxLength)

\* the while loop over the lines; st is [tweets, currentTweet]
RECURSIVE LineLoop(_, _, _, _)
LineLoop(lines, i, st, maxLength) ==
    IF i > Len(lines) THEN st
    ELSE LET line == lines[i]
             isLastLine == i = Len(lines)
             cur == st.currentTweet
             separator == IF cur # <<>> /\ ~isLastLine /\ line # <<>>
                          THEN <<"\n">> ELSE <<>>
             fits == cur \o separator \o line
         IN  IF Len(fits) <= maxLength
             THEN IF \/ isLastLine
                     \/ /\ Len(fits \o <<"\n">> \o lines[i + 1]) > maxLength
                        /\ ~isSubItem(lines[i + 1], lines[i])
                  THEN LineLoop(lines, i + 1,
                           [tweets |-> Append(st.tweets,
                                fits \o (IF isLastLine THEN <<>>
                                         ELSE <<" ">> \o Ellipsis)),
                            currentTweet |-> <<>>],
                           maxLength)
                  ELSE LineLoop(lines, i + 1,
                           [st EXCEPT !.currentTweet = fits], maxLength)
             ELSE LET tweets1 == IF cur # <<>>
                                 THEN Append(st.tweets, cur \o <<" ", " ">> \o Ellipsis)
                                 ELSE st.tweets
                  IN  IF isHeader(line) \/ Len(line) <= maxLength
                      THEN LineLoop(lines, i + 1,
                               [tweets |-> tweets1, currentTweet |-> line],
                               maxLength)
                      ELSE LineLoop(lines, i + 1,
                               PieceLoop(splitLongLine(line, maxLength), 1,
                                   [tweets |-> tweets1, currentTweet |-> <<>>],
                                   isLastLine, maxLength),
                               maxLength)

splitTweetContent(content) ==
    LET maxLength == MAX_TWEET_LENGTH - Len(Ellipsis)
        st == LineLoop(Lines(content), 1,
                  [tweets |-> <<>>, currentTweet |-> <<>>], maxLength)
        tweets == IF st.currentTweet # <<>>
                  THEN Append(st.tweets, st.currentTweet)
                  ELSE st.tweets
    IN  [k \in 1..Len(tweets) |-> Trim(tweets[k])]

(***************************************************************************)
(* The segmenter on its own: a text is drawn, splitTweetContent runs.      *)
(***************************************************************************)
\* lines of a text
MaxLines == 3

\* the lines the texts are made of
LinePool ==
    { <<>>,                                           \* a blank line
      <<"a", "a">>,                                   \* a short line
      <<"E", " ", "a", ":">>,                         \* a header
      <<"-", " ", "a">>,                              \* a sub-item
      Rep("a", MAX_TWEET_LENGTH - 3),                 \* a line of maxLength
      Rep("a", MAX_TWEET_LENGTH - 10),                \* room for a header
      <<"E">> \o Rep("a", MAX_TWEET_LENGTH) \o <<":">>,   \* a long header
      [j \in 1..(MAX_TWEET_LENGTH + 20) |->           \* long, of sentences
          IF j % 5 = 4 THEN "." ELSE IF j % 5 = 0 THEN " " ELSE "a"],
      [j \in 1..(MAX_TWEET_LENGTH + 20) |->           \* long, of words
          IF j % 5 = 0 THEN " " ELSE "a"],
      Rep("a", 2 * MAX_TWEET_LENGTH + 40),            \* one long token
      <<"!">> \o [j \in 1..(MAX_TWEET_LENGTH + 20) |->  \* long, "!" first
          IF j % 5 = 0 THEN " " ELSE "a"] }

RECURSIVE JoinLines(_)
JoinLines(ls) ==
    IF Len(ls) = 1 THEN ls[1]
    ELSE ls[1] \o <<"\n">> \o JoinLines(Tail(ls))

SegInputs ==
    {JoinLines(ls) : ls \in UNION {[1..n -> LinePool] : n \in 1..MaxLines}}

botVars == <<lastCheckedTweetId, cachedTweetId, profile, memory, initPc,
             timer, tick, kind, posts, nextId>>

SegInit ==
    /\ segIn \in SegInputs
    /\ segOut = <<>>
    /\ segDone = FALSE
    /\ tasks = <<>>
    /\ calls = {}
    /\ proc = [c \in Callers |-> IdleCaller]
    /\ scIn = NoArguments
    /\ scRuns = <<>>
    /\ lineIn = NoLine
    /\ lineOut = NotSplit
    /\ insIn = NoParts
    /\ insOut = NotAnalyzed
    /\ lastCheckedTweetId = 0
    /\ cachedTweetId = 0
    /\ profile = FALSE
    /\ memory = EmptyBag
    /\ initPc = "login"
    /\ timer = FALSE
    /\ tick = [t \in Slots |-> IdleTick]
    /\ kind = [id \in MentionIds |-> "ok"]
    /\ posts = {}
    /\ nextId = FirstReplyId

SplitTweetContent ==
    /\ ~segDone
    /\ segOut' = splitTweetContent(segIn)
    /\ segDone' = TRUE
    /\ UNCHANGED <<segIn, botVars, queueVars, scoreVars, lineVars, insightVars>>

SegNext == SplitTweetContent

SegSpec == SegInit /\ [][SegNext]_vars

(***************************************************************************)
(* The platform calls and the request queue.  Each caller goes through the *)
(* calls of its code in order: init() through fetchProfile and the search  *)
(* of populateTimeline, a tick through the search, getTweet, the timeline, *)
(* the followers, AnalyzeProfile and sendTweet (of one chunk).  The        *)
(* RequestQueue class is not part of the sources at hand: its add() is     *)
(* modelled after its documented contract.                                 *)
(***************************************************************************)
SearchCalls == {"populateTimeline", "fetchSearchTweets"}

\* the calls made as a task of this.requestQueue / client.requestQueue
ViaQueue(pc) ==
    pc \in {"fetchProfile", "getTweet", "sendTweet"} \cup SearchCalls

\* a search without its timer
NoTimeout(pc) == FALSE

\* the calls raced against timeoutPromise
HasTimeout(pc) == pc \in SearchCalls

\* where a caller goes when the call it awaited has settled with outcome
\* ("ok", "error", or "empty" when the timer won the race); hasTweet tells
\* whether a search that answered returned a candidate the tick handles
After(c, pc, outcome, hasTweet) ==
    CASE pc = "idle" ->
           IF c = InitCaller THEN "fetchProfile" ELSE "fetchSearchTweets"
      [] pc = "fetchProfile" ->
           \* the catch of fetchProfile returns undefined and init() throws
           IF outcome = "ok" THEN "populateTimeline" ELSE "done"
      [] pc = "populateTimeline" -> "done"
      [] pc = "fetchSearchTweets" ->
           IF outcome = "ok" /\ hasTweet THEN "getTweet" ELSE "done"
      [] pc = "getTweet" ->
           IF outcome = "ok" THEN "fetchHomeTimeline" ELSE "done"
      [] pc = "fetchHomeTimeline" ->
           IF outcome = "ok" THEN "fetchUsersFollowers" ELSE "done"
      [] pc = "fetchUsersFollowers" ->
           \* its catch returns []
           "AnalyzeProfile"
      [] pc = "AnalyzeProfile" ->
           IF outcome = "ok" THEN "sendTweet" ELSE "done"
      [] OTHER -> "done"

\* a task that a failure puts back in the queue
RetryOnFailure(outcome) == IF outcome = "error" THEN "queued" ELSE "settled"

\* the state of a task whose function has returned or thrown: the promise
\* add() returned is settled, whatever the outcome
SettledState(outcome) == "settled"

\* a queue that starts every task as soon as it is added
StartableAtOnce(T, i) == T[i].state = "queued"

\* the task the queue starts next: the one added first among those waiting,
\* and only when no task is running
Startable(T, i) ==
    /\ T[i].state = "queued"
    /\ \A j \in 1..Len(T) : T[j].state # "running"
    /\ \A j \in 1..(i - 1) : T[j].state # "queued"

\* requestQueue.add(task)
Add(T, c, pc) ==
    Append(T, [caller |-> c, kind |-> pc, state |-> "queued", runs |-> 0,
               result |-> "none"])

\* task i has settled with outcome
Settle(T, i, outcome) ==
    [T EXCEPT ![i].state = SettledState(outcome), ![i].result = outcome]

\* the continuation of caller c after the call it awaited: from the outcome
\* to the next call, which is added to the queue or made at once
Resume(c, outcome, hasTweet, T, K) ==
    LET next == After(c, proc[c].pc, outcome, hasTweet)
        queued == ViaQueue(next)
    IN  /\ tasks' = IF queued THEN Add(T, c, next) ELSE T
        /\ calls' = IF next # "done" /\ ~queued
                    THEN K \cup {[caller |-> c, kind |-> next, task |-> 0]}
                    ELSE K
        /\ proc' = [proc EXCEPT ![c] =
                       [pc |-> next,
                        task |-> IF queued THEN Len(T) + 1 ELSE 0,
                        timedOut |-> FALSE,
                        got |-> outcome]]

\* init() reaches fetchProfile, or the timer starts a tick
BeginCaller(c) ==
    /\ proc[c].pc = "idle"
    /\ Resume(c, "none", FALSE, tasks, calls)
    /\ UNCHANGED <<botVars, pureVars>>

\* the queue starts a task: the task makes its platform call.  A search whose
\* timer has fired already settles at once, with its call outstanding.
StartTask ==
    \E i \in 1..Len(tasks) :
        /\ Startable(tasks, i)
        /\ LET c == tasks[i].caller
               call == [caller |-> c, kind |-> tasks[i].kind, task |-> i]
               T1 == [tasks EXCEPT ![i].state = "running", ![i].runs = @ + 1]
           IN  IF proc[c].task = i /\ proc[c].timedOut
               THEN Resume(c, "empty", FALSE, Settle(T1, i, "empty"),
                           calls \cup {call})
               ELSE /\ tasks' = T1
                    /\ calls' = calls \cup {call}
                    /\ UNCHANGED proc
        /\ UNCHANGED <<botVars, pureVars>>

\* the platform answers a call or fails it
Respond(call, outcome) ==
    /\ call \in calls
    /\ LET c == call.caller
           K1 == calls \ {call}
       IN  IF call.task = 0
           THEN \E hasTweet \in BOOLEAN :
                    Resume(c, outcome, hasTweet, tasks, K1)
           ELSE IF tasks[call.task].state = "running"
           THEN \E hasTweet \in BOOLEAN :
                    Resume(c, outcome, hasTweet,
                           Settle(tasks, call.task, outcome), K1)
           ELSE \* the task has settled without it: nobody awaits the call
                /\ calls' = K1
                /\ UNCHANGED <<tasks, proc>>
    /\ UNCHANGED <<botVars, pureVars>>

\* the timer of fetchSearchTweets fires: timeoutPromise resolves with no
\* tweets, and so does the race when the task is running
SearchTimeout(c) ==
    /\ HasTimeout(proc[c].pc)
    /\ ~proc[c].timedOut
    /\ IF tasks[proc[c].task].state = "running"
       THEN Resume(c, "empty", FALSE, Settle(tasks, proc[c].task, "empty"), calls)
       ELSE /\ proc' = [proc EXCEPT ![c].timedOut = TRUE]
            /\ UNCHANGED <<tasks, calls>>
    /\ UNCHANGED <<botVars, pureVars>>

\* the platform answers the call caller c awaits, other than a search
RespondTo(c) ==
    \E call \in calls, outcome \in {"ok", "error"} :
        /\ call.caller = c
        /\ call.kind \notin SearchCalls
        /\ Respond(call, outcome)

\* the platform answers a search
RespondToSearch ==
    \E call \in calls, outcome \in {"ok", "error"} :
        /\ call.kind \in SearchCalls
        /\ Respond(call, outcome)

QueueInit ==
    /\ tasks = <<>>
    /\ calls = {}
    /\ proc = [c \in Callers |-> IdleCaller]
    /\ scIn = NoArguments
    /\ scRuns = <<>>
    /\ lineIn = NoLine
    /\ lineOut = NotSplit
    /\ insIn = NoParts
    /\ insOut = NotAnalyzed
    /\ segIn = <<>>
    /\ segOut = <<>>
    /\ segDone = FALSE
    /\ lastCheckedTweetId = 0
    /\ cachedTweetId = 0
    /\ profile = FALSE
    /\ memory = EmptyBag
    /\ initPc = "login"
    /\ timer = TRUE
    /\ tick = [t \in Slots |-> IdleTick]
    /\ kind = [id \in MentionIds |-> "ok"]
    /\ posts = {}
    /\ nextId = FirstReplyId

QueueNext ==
    \/ \E c \in Callers : BeginCaller(c)
    \/ StartTask
    \/ \E c \in Callers : RespondTo(c)
    \/ RespondToSearch
    \/ \E c \in Callers : SearchTimeout(c)

QueueSpec == QueueInit /\ [][QueueNext]_vars

\* callers go on, the queue starts the task that is next, timers fire, and
\* the platform answers every call but a search, which it may leave open
FairQueueSpec ==
    /\ QueueSpec
    /\ \A c \in Callers : WF_vars(BeginCaller(c))
    /\ WF_vars(StartTask)
    /\ \A c \in Callers : WF_vars(RespondTo(c))
    /\ \A c \in Callers : WF_vars(SearchTimeout(c))

(***************************************************************************)
(* The scorer, XprofileInsightService.AnalyzeProfile.  A number of the     *)
(* program is an exact fraction here, toFixed renders a fraction as the    *)
(* decimal string the program returns and NumberOf reads such a string     *)
(* back, in hundredths.  A rounding tie goes up.  Times are counted in     *)
(* hundredths of a day, so that a year (365.25 days) and a month (30.42    *)
(* days) are whole numbers.  The fields of the analysis that are computed  *)
(* from the words of the posts and of the bio are left out.                *)
(***************************************************************************)
MathMax(a, b) == IF a >= b THEN a ELSE b
MathMin(a, b) == IF a <= b THEN a ELSE b

DigitChars == <<"0", "1", "2", "3", "4", "5", "6", "7", "8", "9">>

\* String(n) of a natural number
RECURSIVE NatToString(_)
NatToString(n) ==
    IF n < 10 THEN <<DigitChars[n + 1]>>
    ELSE Append(NatToString(n \div 10), DigitChars[(n % 10) + 1])

RECURSIVE Pow10(_)
Pow10(f) == IF f = 0 THEN 1 ELSE 10 * Pow10(f - 1)

NaN == <<"N", "a", "N">>
InfinityString == <<"I", "n", "f", "i", "n", "i", "t", "y">>

\* (num / den).toFixed(f) for num >= 0 and den >= 0; a division by zero
\* gives Infinity or NaN in the program, and toFixed renders those by name
toFixed(num, den, f) ==
    IF den = 0 THEN (IF num = 0 THEN NaN ELSE InfinityString)
    ELSE LET q == num \div den
             r == num % den
             below == (r * Pow10(f)) \div den
             rest == (r * Pow10(f)) % den
             scaled == IF rest >= den - rest THEN below + 1 ELSE below
             whole == q + (scaled \div Pow10(f))
             frac == NatToString(scaled % Pow10(f))
         IN  IF f = 0 THEN NatToString(whole)
             ELSE NatToString(whole) \o <<".">>
                    \o Rep("0", f - Len(frac)) \o frac

\* str.replace(c, ''): the first c is removed
Replace(str, c) ==
    IF \E j \in 1..Len(str) : str[j] = c
    THEN LET j == CHOOSE j \in 1..Len(str) :
                      str[j] = c /\ \A h \in 1..(j - 1) : str[h] # c
         IN  SubSeq(str, 1, j - 1) \o SubSeq(str, j + 1, Len(str))
    ELSE str

DigitValue(c) == CHOOSE d \in 0..9 : DigitChars[d + 1] = c

RECURSIVE DigitsValue(_)
DigitsValue(str) ==
    IF str = <<>> THEN 0
    ELSE 10 * DigitsValue(SubSeq(str, 1, Len(str) - 1)) + DigitValue(str[Len(str)])

\* the whole part of Number(str) and its first two decimals, for the strings
\* toFixed returns
Whole(str) == DigitsValue(SubSeq(str, 1, FirstIn(str, 1, {"."}) - 1))
Decimals(str) ==
    LET frac == SubSeq(str, FirstIn(str, 1, {"."}) + 1, Len(str))
    IN  DigitsValue(SubSeq(frac \o <<"0", "0">>, 1, 2))

\* what Number(str) || 0 is, in hundredths
Infinity == -1
NumberOf(str) ==
    IF str = NaN THEN 0
    ELSE IF str = InfinityString THEN Infinity
    ELSE 100 * Whole(str) + Decimals(str)

\* Number(str) > n
GreaterThan(str, n) ==
    /\ str # NaN
    /\ \/ str = InfinityString
       \/ Whole(str) > n
       \/ Whole(str) = n /\ Decimals(str) > 0

\* the units of time
Day == 100
Year == 36525
Month == 3042

Unknown == <<"U", "n", "k", "n", "o", "w", "n">>

\* joined is 0 when the profile has no joined date
getAccountAge(joined, now) ==
    IF joined = 0 THEN Unknown
    ELSE LET diffMs == now - joined
             diffYears == diffMs \div Year
             diffMonths == (diffMs % Year) \div Month
         IN  NatToString(diffYears) \o <<"y", " ">>
               \o NatToString(diffMonths) \o <<"m">>

\* the context decided by the ratio alone
RatioAlone(followersCount, followingCount) ==
    LET ratio == toFixed(followersCount, MathMax(followingCount, 1), 2)
    IN  [ratio |-> ratio,
         context |-> IF GreaterThan(ratio, 10)
                     THEN "Influencer-like" ELSE "Balanced"]

\* the string returned is ratio, a blank and the context in parentheses
getFollowerFollowingRatio(followersCount, followingCount) ==
    LET followers == followersCount
        following == followingCount
        ratio == toFixed(followers, MathMax(following, 1), 2)
    IN  [ratio |-> ratio,
         context |-> IF followers > 10000 /\ GreaterThan(ratio, 10)
                     THEN "Influencer-like" ELSE "Balanced"]

\* the sum of a field over the posts that carry metrics
RECURSIVE Total(_, _)
Total(tweets, field) ==
    IF tweets = <<>> THEN 0
    ELSE Total(Tail(tweets), field)
           + (IF Head(tweets).public_metrics THEN Head(tweets)[field] ELSE 0)

RateWithoutFollowersGuard(tweetCount, followers, total) ==
    IF tweetCount # 0
    THEN toFixed(total * 100, tweetCount * followers, 2) \o <<"%">>
    ELSE <<"0", "%">>

EngagementRate(tweetCount, followers, total) ==
    IF tweetCount # 0 /\ followers # 0
    THEN toFixed(total * 100, tweetCount * followers, 2) \o <<"%">>
    ELSE <<"0", "%">>

analyzeEngagement(tweets, followers) ==
    LET totalLikes == Total(tweets, "like_count")
        totalRetweets == Total(tweets, "retweet_count")
        totalReplies == Total(tweets, "reply_count")
        tweetCount == Len(SelectSeq(tweets, LAMBDA t : t.public_metrics))
        Average(total) ==
            IF tweetCount # 0 THEN toFixed(total, tweetCount, 2) ELSE <<"0">>
    IN  [avgLikes |-> Average(totalLikes),
         avgRetweets |-> Average(totalRetweets),
         replyFrequency |-> Average(totalReplies),
         engagementRate |->
             EngagementRate(tweetCount, followers,
                            totalLikes + totalRetweets + totalReplies)]

\* created_at is 0 when the post has none
daysActive(tweets, now) ==
    IF tweets # <<>> /\ tweets[1].created_at # 0
    THEN MathMax((now - tweets[1].created_at) \div Day, 1)
    ELSE 1

analyzePosting(tweets, totalTweets, now) ==
    LET tweetCount == Len(tweets)
        mediaCount == Len(SelectSeq(tweets, LAMBDA t : t.media))
    IN  [frequency |->
             IF tweetCount # 0
             THEN toFixed(tweetCount, daysActive(tweets, now), 2)
                    \o <<" tweets/day">>
             ELSE <<"0", " tweets/day">>,
         mediaUsage |->
             IF tweetCount # 0
             THEN toFixed(mediaCount * 100, tweetCount, 1) \o <<"%">>
             ELSE <<"0", "%">>,
         totalTweets |-> totalTweets]

\* the sum of the five terms in hundred-thousandths, Infinity when a term is
SumOfTerms(followers, likes, retweets, engagementRate, listedCount) ==
    IF Infinity \in {likes, retweets, engagementRate} THEN Infinity
    ELSE followers + 10 * likes + 20 * retweets + 500 * engagementRate
           + 100 * listedCount

Uncapped(sum) == IF sum = Infinity THEN InfinityString ELSE toFixed(sum, 100000, 1)

Capped(sum) ==
    IF sum = Infinity THEN toFixed(100, 1, 1)
    ELSE toFixed(MathMin(sum, 100 * 100000), 100000, 1)

calculateInfluenceScore(followers, engagement, listedCount) ==
    LET likes == NumberOf(engagement.avgLikes)
        retweets == NumberOf(engagement.avgRetweets)
        engagementRate == NumberOf(Replace(engagement.engagementRate, "%"))
    IN  Capped(SumOfTerms(followers, likes, retweets, engagementRate,
                          listedCount)) \o <<"%">>

\* the accounts of the trusted list, and toLowerCase on the names at hand
TRUSTED_ACCOUNTS == {"alice"}
toLowerCase(name) == IF name = "Alice" THEN "alice" ELSE name

\* the count that compares the names as they are written
CountExactCase(followers) ==
    Len(SelectSeq(followers, LAMBDA f : f # "" /\ f \in TRUSTED_ACCOUNTS))

countTrustedFollowers(followers) ==
    Len(SelectSeq(followers,
                  LAMBDA f : f # "" /\ toLowerCase(f) \in TRUSTED_ACCOUNTS))

\* the notice on a trusted account, and the writeup of a profile
TrustedNotice == "This user is a trusted account."
Writeup(username) ==
    IF toLowerCase(username) \in TRUSTED_ACCOUNTS THEN TrustedNotice ELSE ""

\* what AnalyzeProfile returns when it does not throw
Analysis(username, tweets, follower, profileData, now) ==
    LET engagement == analyzeEngagement(tweets, profileData.followersCount)
    IN  [accountAge |-> getAccountAge(profileData.joined, now),
         followerFollowingRatio |->
             getFollowerFollowingRatio(profileData.followersCount,
                                       profileData.followingCount),
         engagement |-> engagement,
         posting |-> analyzePosting(tweets, profileData.statusesCount, now),
         visibility |-> [listedCount |-> profileData.listedCount],
         influenceScore |->
             calculateInfluenceScore(profileData.followersCount, engagement,
                                     profileData.listedCount),
         trustedFollowerCount |-> countTrustedFollowers(follower),
         writeup |-> Writeup(username)]

Thrown == [error |-> TRUE]

(***************************************************************************)
(* The scorer on its own: the arguments are drawn, and AnalyzeProfile runs *)
(* on them MaxRuns times; each run asks the platform for the profile and   *)
(* reads the clock.                                                        *)
(***************************************************************************)
MaxRuns == 2

Post(metrics, likes, retweets, replies, created, media) ==
    [public_metrics |-> metrics, like_count |-> likes,
     retweet_count |-> retweets, reply_count |-> replies,
     created_at |-> created, media |-> media]

\* a post without metrics, a post with, and one whose counts are all 0
PostPool ==
    { Post(FALSE, 0, 0, 0, 0, FALSE),
      Post(TRUE, 50, 30, 10, 199000, TRUE),
      Post(TRUE, 0, 0, 0, 190000, FALSE) }

PostLists == {<<>>} \cup {<<p>> : p \in PostPool}
               \cup {<<p, q>> : p \in PostPool, q \in PostPool}

ScoreInputs ==
    [username : {"Alice", "bob"},
     tweets : PostLists,
     follower : {<<"", "Alice", "bob">>}]

\* what getProfile may answer, an absent count being 0
Profiles ==
    [followersCount : {0, 5, 20000, 1000000000},
     followingCount : {0, 3},
     listedCount : {0, 200000},
     statusesCount : {7},
     joined : {0, 100000}]

\* the profile of a run whose getProfile threw
NoProfile ==
    [followersCount |-> 0, followingCount |-> 0, listedCount |-> 0,
     statusesCount |-> 0, joined |-> 0]

\* what the clock may read
Clock == {200000, 250000}

ScoreInit ==
    /\ scIn \in ScoreInputs
    /\ scRuns = <<>>
    /\ lineIn = NoLine
    /\ lineOut = NotSplit
    /\ insIn = NoParts
    /\ insOut = NotAnalyzed
    /\ segIn = <<>>
    /\ segOut = <<>>
    /\ segDone = FALSE
    /\ tasks = <<>>
    /\ calls = {}
    /\ proc = [c \in Callers |-> IdleCaller]
    /\ lastCheckedTweetId = 0
    /\ cachedTweetId = 0
    /\ profile = FALSE
    /\ memory = EmptyBag
    /\ initPc = "login"
    /\ timer = FALSE
    /\ tick = [t \in Slots |-> IdleTick]
    /\ kind = [id \in MentionIds |-> "ok"]
    /\ posts = {}
    /\ nextId = FirstReplyId

\* getProfile throws, or it answers and tweets[0].text is read, which throws
\* on an empty list; every throw is caught and thrown again
AnalyzeProfile ==
    /\ Len(scRuns) < MaxRuns
    /\ \E now \in Clock :
         \/ scRuns' = Append(scRuns,
                  [fetched |-> FALSE, profileData |-> NoProfile, now |-> now,
                   result |-> Thrown])
         \/ \E profileData \in Profiles :
              scRuns' = Append(scRuns,
                  [fetched |-> TRUE, profileData |-> profileData, now |-> now,
                   result |->
                       IF scIn.tweets = <<>> THEN Thrown
                       ELSE [error |-> FALSE,
                             analysis |->
                                 Analysis(scIn.username, scIn.tweets,
                                          scIn.follower, profileData, now)]])
    /\ UNCHANGED <<scIn, lineVars, insightVars, segVars, botVars, queueVars>>

ScoreNext == AnalyzeProfile

ScoreSpec == ScoreInit /\ [][ScoreNext]_vars

(***************************************************************************)
(* splitLongLine on its own: a line and a limit of at least 1 are drawn,   *)
(* splitLongLine runs.                                                     *)
(***************************************************************************)
MaxLineLength == 7
MaxLimit == 3

\* a letter, a blank and a sentence end
LineChars == {"a", " ", "."}

LineInputs ==
    [line : UNION {[1..n -> LineChars] : n \in 0..MaxLineLength},
     maxLength : 1..MaxLimit]

LineInit ==
    /\ lineIn \in LineInputs
    /\ lineOut = NotSplit
    /\ insIn = NoParts
    /\ insOut = NotAnalyzed
    /\ scIn = NoArguments
    /\ scRuns = <<>>
    /\ segIn = <<>>
    /\ segOut = <<>>
    /\ segDone = FALSE
    /\ tasks = <<>>
    /\ calls = {}
    /\ proc = [c \in Callers |-> IdleCaller]
    /\ lastCheckedTweetId = 0
    /\ cachedTweetId = 0
    /\ profile = FALSE
    /\ memory = EmptyBag
    /\ initPc = "login"
    /\ timer = FALSE
    /\ tick = [t \in Slots |-> IdleTick]
    /\ kind = [id \in MentionIds |-> "ok"]
    /\ posts = {}
    /\ nextId = FirstReplyId

SplitLongLine ==
    /\ ~lineOut.done
    /\ lineOut' = [done |-> TRUE,
                   chunks |-> splitLongLine(lineIn.line, lineIn.maxLength)]
    /\ UNCHANGED <<lineIn, scoreVars, insightVars, segVars, botVars, queueVars>>

LineNext == SplitLongLine

LineSpec == LineInit /\ [][LineNext]_vars

(***************************************************************************)
(* The parts of the scorer that read the bio, the texts of the posts and   *)
(* the names: analyzeBio, analyzeContent, the ratio, the trusted followers *)
(* and the writeup.  A bio and a text are sequences of characters.         *)
(***************************************************************************)

\* characters matching /[\u{1F300}-\u{1F9FF}]/u: "E" stands for a pictograph
Pictographs == {"E"}

\* str.length counts UTF-16 code units, and a pictograph of that range is two
length(str) == Len(str) + Cardinality({j \in DOMAIN str : str[j] \in Pictographs})

\* the bio that is found Simple although it is long and wordy
SimpleFirst(bio) ==
    LET wordCount == Len(Words(Trim(bio)))
        hasEmojis == \E j \in DOMAIN bio : bio[j] \in Pictographs
    IN  [content |-> bio,
         comprehensibility |->
             IF wordCount < 5 \/ hasEmojis THEN "Simple"
             ELSE IF wordCount > 20 \/ length(bio) > 160 THEN "Complex"
             ELSE "Clear"]

analyzeBio(bio) ==
    LET wordCount == Len(Words(Trim(bio)))
        hasEmojis == \E j \in DOMAIN bio : bio[j] \in Pictographs
    IN  [content |-> bio,
         comprehensibility |->
             IF wordCount > 20 \/ length(bio) > 160 THEN "Complex"
             ELSE IF wordCount < 5 \/ hasEmojis THEN "Simple"
             ELSE "Clear"]

\* text.toLowerCase() on the letters at hand
LowerChar(c) == IF c = "G" THEN "g" ELSE IF c = "S" THEN "s" ELSE c
LowerCase(text) == [j \in DOMAIN text |-> LowerChar(text[j])]

\* text.includes(keyword)
includes(text, keyword) ==
    \E o \in 0..(Len(text) - Len(keyword)) :
        SubSeq(text, o + 1, o + Len(keyword)) = keyword

PositiveKeywords ==
    {<<"g", "r", "e", "a", "t">>, <<"a", "w", "e", "s", "o", "m", "e">>,
     <<"h", "a", "p", "p", "y">>}
NegativeKeywords ==
    {<<"b", "a", "d">>, <<"s", "a", "d">>,
     <<"p", "r", "o", "b", "l", "e", "m">>}

\* the sentiment of a post that has a text
Sentiment(tweetText) ==
    LET text == LowerCase(tweetText)
    IN  IF \E k \in PositiveKeywords : includes(text, k) THEN "Positive"
        ELSE IF \E k \in NegativeKeywords : includes(text, k) THEN "Negative"
        ELSE "Neutral"

\* the tally that counts the posts without a text too
RECURSIVE TallyOfAllPosts(_, _)
TallyOfAllPosts(tweets, label) ==
    IF tweets = <<>> THEN 0
    ELSE TallyOfAllPosts(Tail(tweets), label)
           + (IF Sentiment(Head(tweets).text) = label THEN 1 ELSE 0)

\* sentiments[label] after the loop over the posts
RECURSIVE Tally(_, _)
Tally(tweets, label) ==
    IF tweets = <<>> THEN 0
    ELSE Tally(Tail(tweets), label)
           + (IF Head(tweets).text # <<>> /\ Sentiment(Head(tweets).text) = label
              THEN 1 ELSE 0)

\* `${label}: ${count}`
Entry(tweets, label) == <<label, ":", " ">> \o NatToString(Tally(tweets, label))

\* the summary joins the three entries with a comma and a blank
analyzeContent(tweets) ==
    [sentiment |-> Entry(tweets, "Positive") \o <<",", " ">>
                     \o Entry(tweets, "Neutral") \o <<",", " ">>
                     \o Entry(tweets, "Negative")]

(***************************************************************************)
(* The parts on their own: a profile, a list of posts, a follower sample   *)
(* and a username are drawn, and the parts are computed from them once.    *)
(***************************************************************************)

\* the posts of a list
MaxTexts == 2

Blank == " "
\* n words of one letter, separated by blanks
RECURSIVE WordsOfOne(_)
WordsOfOne(n) == IF n = 1 THEN <<"a">> ELSE WordsOfOne(n - 1) \o <<Blank, "a">>

\* bios: empty, "gm", four and five words, five words and a pictograph, five
\* words between blanks, 21 words without and with a pictograph, one word of
\* 200 characters, five words of 160 and of 161 characters, and five words
\* of 160 characters ending in a pictograph
Bios ==
    {<<>>,
     <<"g", "m">>,
     WordsOfOne(4),
     WordsOfOne(5),
     WordsOfOne(4) \o <<Blank, "E">>,
     <<Blank, Blank>> \o WordsOfOne(5) \o <<Blank>>,
     WordsOfOne(21),
     WordsOfOne(20) \o <<Blank, "E">>,
     Rep("a", 200),
     WordsOfOne(4) \o <<Blank>> \o Rep("a", 152),
     WordsOfOne(4) \o <<Blank>> \o Rep("a", 153),
     WordsOfOne(4) \o <<Blank>> \o Rep("a", 151) \o <<"E">>}

\* texts: none, "Great", "badge", "Sad happy" and "day"
Texts ==
    {<<>>,
     <<"G", "r", "e", "a", "t">>,
     <<"b", "a", "d", "g", "e">>,
     <<"S", "a", "d", " ", "h", "a", "p", "p", "y">>,
     <<"d", "a", "y">>}

TextLists ==
    UNION {[1..n -> [text : Texts]] : n \in 0..MaxTexts}

InsightInputs ==
    [followersCount : {0, 10000, 10001, 20001, 100000},
     followingCount : {0, 1000, 2000, 10001},
     biography : Bios,
     tweets : TextLists,
     follower : {<<>>, <<"", "Alice", "bob", "alice">>},
     username : {"Alice", "alice", "bob"}]

InsightInit ==
    /\ insIn \in InsightInputs
    /\ insOut = NotAnalyzed
    /\ lineIn = NoLine
    /\ lineOut = NotSplit
    /\ scIn = NoArguments
    /\ scRuns = <<>>
    /\ segIn = <<>>
    /\ segOut = <<>>
    /\ segDone = FALSE
    /\ tasks = <<>>
    /\ calls = {}
    /\ proc = [c \in Callers |-> IdleCaller]
    /\ lastCheckedTweetId = 0
    /\ cachedTweetId = 0
    /\ profile = FALSE
    /\ memory = EmptyBag
    /\ initPc = "login"
    /\ timer = FALSE
    /\ tick = [t \in Slots |-> IdleTick]
    /\ kind = [id \in MentionIds |-> "ok"]
    /\ posts = {}
    /\ nextId = FirstReplyId

\* the parts of the record AnalyzeProfile returns
AnalyzeParts ==
    /\ ~insOut.done
    /\ insOut' = [done |-> TRUE,
                  followerFollowingRatio |->
                      getFollowerFollowingRatio(insIn.followersCount,
                                                insIn.followingCount),
                  bio |-> analyzeBio(insIn.biography),
                  content |-> analyzeContent(insIn.tweets),
                  trustedFollowerCount |-> countTrustedFollowers(insIn.follower),
                  writeup |-> Writeup(insIn.username)]
    /\ UNCHANGED <<insIn, scoreVars, lineVars, segVars, botVars, queueVars>>

InsightNext == AnalyzeParts

InsightSpec == InsightInit /\ [][InsightNext]_vars

(***************************************************************************)
(* Claims                                                                  *)
(***************************************************************************)
Active == {t \in Slots : tick[t].pc # "idle"}
\* the mention a tick is handling
Mention(t) == tick[t].cands[tick[t].i]
RepliesTo(id) == {p \in posts : p.inReplyTo = id}
PostWithId(id) == CHOOSE p \in posts : p.id = id

\* C1: at most one reply thread is started per mention: at most one post of
\* the bot is in reply to a given mention id.
C1_OneThreadPerMention ==
    \A m \in MentionIds : Cardinality(RepliesTo(m)) <= 1

\* C2: the watermark never takes a value smaller than one it held earlier.
C2_WatermarkNeverDecreases ==
    [][lastCheckedTweetId' >= lastCheckedTweetId]_vars

\* C3: ticks never overlap: at most one call of handleTwitterInteractions
\* is in flight at any time.
C3_TicksNeverOverlap == Cardinality(Active) <= 1

\* C4: a tick whose candidates all had a ledger entry when they were fetched
\* never enters handleTweet, has sent nothing and posts nothing.
C4_KnownCandidatesNoDispatch ==
    \A t \in Slots :
        (tick[t].pc \notin {"idle", "search"} /\ tick[t].known)
            => /\ tick[t].pc = "existing"
               /\ tick[t].sentTweets = <<>>

\* a tick with two candidates, both in the ledger when fetched, has skipped
\* the first and is looking up the second
C4_Witness ==
    \E t \in Slots :
        /\ tick[t].known
        /\ tick[t].pc = "existing"
        /\ Len(tick[t].cands) = 2
        /\ tick[t].i = 2

\* C5: in a dispatch, every post is in reply to the id returned for the
\* latest earlier chunk whose send succeeded, or to the mention when there
\* is none.
C5_ReplyChain ==
    \A t \in Slots :
        tick[t].pc \in {"send", "wait"} =>
            \A j \in 1..Len(tick[t].sentTweets) :
                /\ \E p \in posts : p.id = tick[t].sentTweets[j]
                /\ PostWithId(tick[t].sentTweets[j]).inReplyTo =
                       IF j = 1 THEN Mention(t) ELSE tick[t].sentTweets[j - 1]

\* a dispatch of two chunks, both posted: the first post is in reply to the
\* mention and the second to the first
C5_Witness ==
    \E t \in Slots :
        /\ tick[t].pc = "wait"
        /\ tick[t].nChunks = 2
        /\ Len(tick[t].sentTweets) = 2
        /\ PostWithId(tick[t].sentTweets[1]).inReplyTo = Mention(t)
        /\ PostWithId(tick[t].sentTweets[2]).inReplyTo = tick[t].sentTweets[1]

\* C6: a post call that throws skips that chunk only: while chunks remain
\* after the one being sent, the dispatch goes on with the next chunk.
C6_ThrowSkipsOneSegment ==
    [][\A t \in Slots :
          (tick[t].pc = "send" /\ tick[t].k + 1 < tick[t].nChunks)
              => tick'[t].pc = "send"]_vars

\* C7: when resolving the parent post or scoring fails for a mention, no
\* reply is posted for it and the watermark is at least its id when the
\* tick ends.
C7_FailedMentionIsPassed ==
    [][\A t \in Slots :
          (tick[t].pc = "handleTweet" /\ tick'[t].pc = "idle")
              => /\ lastCheckedTweetId' >= Mention(t)
                 /\ posts' = posts]_vars

\* C8: a mention whose processing fails on every attempt does not block the
\* others: a mention of kind "ok" fetched together with it, above the
\* watermark and not in the ledger, is eventually dispatched.
Blocked(m) == kind[m] \in {"noParent", "noTweets"}
Eligible(t, m) ==
    /\ tick[t].pc = "existing"
    /\ m \in Range(tick[t].cands)
    /\ kind[m] = "ok"
    /\ AboveWatermark(m, lastCheckedTweetId)
    /\ ~FindOne(memory, m)
Dispatching(m) == \E t \in Slots : tick[t].pc = "send" /\ Mention(t) = m
C8_FailingMentionBlocksNoOther ==
    \A m1, m2 \in MentionIds :
        (\E t \in Slots : /\ Blocked(m1)
                          /\ m1 \in Range(tick[t].cands)
                          /\ Eligible(t, m2))
            ~> (Dispatching(m2) \/ RepliesTo(m2) # {})

\* C9: the polling loop never stops: ticks are started infinitely often.
C9_TicksInfinitelyOften == []<>(\E t \in Slots : tick[t].pc = "search")

\* a tick has posted and was then ended by an exception before the watermark
\* was set, and the timer has started the next tick
C9_Witness ==
    /\ posts # {}
    /\ lastCheckedTweetId = 0
    /\ cachedTweetId = 0
    /\ \E t \in Slots :
          /\ tick[t].pc = "search"
          /\ \A u \in Slots \ {t} : tick[u].pc = "idle"

\* C10: every chunk the segmenter returns, continuation marker included, has
\* length at most the limit.
C10_ChunksWithinLimit ==
    segDone => \A k \in 1..Len(segOut) : Len(segOut[k]) <= MAX_TWEET_LENGTH

\* the characters of a text that are not whitespace, in order
NonWhitespace(str) == SelectSeq(str, LAMBDA c : c \notin Whitespace)

\* a chunk without the continuation marker it ends with, if it ends with one
\* (no line of LinePool ends with three dots of its own)
StripMarker(chunks, k) ==
    IF Len(chunks[k]) >= Len(Ellipsis)
       /\ SubSeq(chunks[k], Len(chunks[k]) - Len(Ellipsis) + 1, Len(chunks[k])) = Ellipsis
    THEN SubSeq(chunks[k], 1, Len(chunks[k]) - Len(Ellipsis))
    ELSE chunks[k]

RECURSIVE ConcatStripped(_, _)
ConcatStripped(chunks, k) ==
    IF k > Len(chunks) THEN <<>>
    ELSE NonWhitespace(StripMarker(chunks, k)) \o ConcatStripped(chunks, k + 1)

\* C11: the chunks, markers stripped and concatenated in order, have the
\* non-whitespace characters of the input, each once and in the same order.
C11_ChunksReproduceInput ==
    segDone => ConcatStripped(segOut, 1) = NonWhitespace(segIn)

\* C12: at no time are two platform calls outstanding, and every outstanding
\* call was made by a task of the request queue.
C12_OneCallThroughQueue ==
    /\ Cardinality(calls) <= 1
    /\ \A call \in calls : call.task # 0

\* the positions of the tasks the callers can add: two by init(), three by
\* each tick
TaskIds == 1..(2 + 3 * MaxOverlap)

\* C13: the queue runs its tasks one at a time in the order they were added:
\* a task has been started only if every task added before it has settled.
C13_OneTaskAtATimeInOrder ==
    \A i \in 1..Len(tasks) : \A j \in 1..(i - 1) :
        tasks[i].runs > 0 => tasks[j].state = "settled"

\* three callers have added a task each: the first has settled, the second
\* is running and the third waits
C13_Witness ==
    /\ Len(tasks) >= 3
    /\ tasks[1].state = "settled"
    /\ tasks[2].state = "running"
    /\ tasks[3].state = "queued"
    /\ Cardinality({tasks[i].caller : i \in 1..3}) = 3

\* the state and the result of the task at position i, "none" before a task
\* is added there
TaskState(i) == IF i <= Len(tasks) THEN tasks[i].state ELSE "none"
TaskResult(i) == IF i <= Len(tasks) THEN tasks[i].result ELSE "none"

\* C14: a task that fails is run once, its failure goes to the caller that
\* added it and to no other, and every task added after it still settles.
C14_FailureIsDeliveredOnce ==
    /\ [](\A i \in 1..Len(tasks) : tasks[i].runs <= 1)
    /\ [][\A i \in 1..Len(tasks) :
            (tasks[i].state = "running" /\ tasks'[i].result = "error")
                => /\ proc[tasks[i].caller].task = i
                   /\ proc'[tasks[i].caller].got = "error"
                   /\ \A d \in Callers \ {tasks[i].caller} : proc'[d] = proc[d]]_vars
    /\ \A i \in TaskIds :
          (/\ \E j \in 1..(i - 1) : TaskResult(j) = "error"
           /\ TaskState(i) \in {"queued", "running"})
              ~> (TaskState(i) = "settled")

\* a task has failed after one run, its caller got the failure, and a task
\* added after it has settled
C14_Witness ==
    \E i \in 1..Len(tasks) : \E j \in 1..(i - 1) :
        /\ tasks[j].result = "error"
        /\ tasks[j].runs = 1
        /\ tasks[j].state = "settled"
        /\ tasks[i].state = "settled"
        /\ tasks[i].caller # tasks[j].caller
        /\ proc[tasks[j].caller].got = "error"

\* C15: a search step always completes, also when the platform never
\* answers the search, and when it completes without an answer (a failure
\* or the timer) the caller makes no further call: the candidates are empty
\* and the tick ends.
C15_SearchDegradesToEmpty ==
    /\ [][\A c \in Callers :
            (/\ proc[c].pc \in SearchCalls
             /\ proc'[c].pc # proc[c].pc
             /\ proc'[c].got # "ok") => proc'[c].pc = "done"]_vars
    /\ \A c \in Callers :
          (proc[c].pc \in SearchCalls) ~> (proc[c].pc \notin SearchCalls)

\* a tick has ended with no candidates after the timer of its search fired,
\* and the platform has still not answered the search
C15_Witness ==
    \E c \in Slots :
        /\ proc[c].pc = "done"
        /\ proc[c].got = "empty"
        /\ \E call \in calls : call.caller = c /\ call.kind = "fetchSearchTweets"

\* C16: the candidates of a tick are in ascending order of their ids compared
\* as integers, whatever the number of digits of the ids.
C16_AscendingNumericOrder ==
    \A t \in Slots :
        \A a, b \in 1..Len(tick[t].cands) :
            a < b => tick[t].cands[a] < tick[t].cands[b]

\* C17: when a dispatch has ended, the ledger has exactly one entry for each
\* reply post the dispatch produced.
C17_RepliesAreRecorded ==
    [][\A t \in Slots :
          (tick[t].pc = "wait" /\ tick'[t].pc # "wait")
              => \A j \in 1..Len(tick[t].sentTweets) :
                     CopiesIn(tick[t].sentTweets[j], memory') = 1]_vars

\* C18: when handleTweet has returned for a mention with text, not of the
\* bot and without a ledger entry, the ledger has an entry with its id.
C18_MentionIsRecorded ==
    [][\A t \in Slots :
          (tick[t].pc = "wait" /\ tick'[t].pc # "wait")
              => BagIn(Mention(t), memory')]_vars

\* C19: no two ledger entries have the same id.
C19_LedgerIdsUnique ==
    \A id \in BagToSet(memory) : CopiesIn(id, memory) = 1

\* the timeline has been populated, a reply has been posted for a mention,
\* and the ledger has an entry for each mention id
C19_Witness ==
    /\ initPc = "done"
    /\ posts # {}
    /\ BagToSet(memory) = MentionIds

\* C20: no post of the bot is in reply to a mention the bot itself authored.
C20_NoReplyToSelf ==
    \A p \in posts :
        p.inReplyTo \in MentionIds => kind[p.inReplyTo] # "self"

\* a tick has handled a mention of the bot itself, which set the watermark,
\* and the bot has replied to the other mention only
C20_Witness ==
    /\ lastCheckedTweetId \in MentionIds
    /\ kind[lastCheckedTweetId] = "self"
    /\ ~BagIn(lastCheckedTweetId, memory)
    /\ posts # {}

\* the runs of the scorer that returned an analysis
ScoredRuns == {j \in 1..Len(scRuns) : ~scRuns[j].result.error}

\* C21: the influence score of every analysis is the sum followers/100000 +
\* avgLikes/100 + avgRetweets/50 + engagementRate/2 + listedCount/1000 capped
\* at 100, to one decimal place, and so lies between 0 and 100; the followers
\* of the runs include 0 and 10^9.  The score is read in hundredths, the sum
\* is in hundred-thousandths.
C21_InfluenceScoreIsCappedSum ==
    \A j \in ScoredRuns :
        LET a == scRuns[j].result.analysis
            p == scRuns[j].profileData
            score == NumberOf(Replace(a.influenceScore, "%"))
            sum == p.followersCount
                     + 10 * NumberOf(a.engagement.avgLikes)
                     + 20 * NumberOf(a.engagement.avgRetweets)
                     + 500 * NumberOf(Replace(a.engagement.engagementRate, "%"))
                     + 100 * p.listedCount
            expected == IF sum <= 10000000 THEN sum ELSE 10000000
        IN  /\ 0 <= score
            /\ score <= 10000
            /\ 1000 * score - expected <= 5000
            /\ expected - 1000 * score <= 5000

C21_Witness ==
    /\ \E j \in ScoredRuns :
          /\ scRuns[j].profileData.followersCount = 1000000000
          /\ scRuns[j].result.analysis.influenceScore
                = <<"1", "0", "0", ".", "0", "%">>
    /\ \E j \in ScoredRuns :
          /\ scRuns[j].profileData.followersCount = 0
          /\ scRuns[j].result.analysis.influenceScore
                \notin {<<"0", ".", "0", "%">>, <<"1", "0", "0", ".", "0", "%">>}

\* the posts of the arguments that carry metrics
CountedPosts == Len(SelectSeq(scIn.tweets, LAMBDA t : t.public_metrics))

\* a division by zero shows in the string rendered from its result
HasPrefix(str, pre) ==
    Len(str) >= Len(pre) /\ SubSeq(str, 1, Len(pre)) = pre

Undivided(str) == ~HasPrefix(str, NaN) /\ ~HasPrefix(str, InfinityString)

C23_ScoringIsDeterministic ==
    \A j, k \in 1..Len(scRuns) :
        /\ scRuns[j].fetched
        /\ scRuns[k].fetched
        /\ scRuns[j].profileData = scRuns[k].profileData
        => scRuns[j].result = scRuns[k].result

\* the candidate the tick t stands at, while it stands at one
AtCandidate(t) == tick[t].pc \in {"existing", "handleTweet", "send", "wait"}
Candidate(t) == tick[t].cands[tick[t].i]

\* the step is one of tick t that is done with its candidate: the candidate
\* was found in the collection, or handleTweet returned or threw
DoneWithCandidate(t) ==
    /\ AtCandidate(t)
    /\ tick'[t] # tick[t]
    /\ \/ ~AtCandidate(t)'
       \/ tick'[t].i # tick[t].i

\* C24: a step that is done with a candidate (found in the collection, or
\* handled with any outcome) leaves the watermark at that candidate's id, and
\* no other step of a tick changes the watermark.
C24_WatermarkFollowsCandidates ==
    [][/\ \A t \in Slots :
             DoneWithCandidate(t) => lastCheckedTweetId' = Candidate(t)
       /\ (lastCheckedTweetId' # lastCheckedTweetId /\ initPc' = initPc)
             => \E t \in Slots : DoneWithCandidate(t)]_vars

\* C25: when a tick ends and the watermark is set, the cached watermark is
\* the watermark (stated for the ticks that end after init() has loaded the
\* profile).
C25_PersistedAtTickEnd ==
    [][\A t \in Slots :
          (~Ended(tick[t]) /\ Ended(tick'[t]) /\ lastCheckedTweetId' # 0
             /\ profile)
             => cachedTweetId' = lastCheckedTweetId']_vars

\* str ends with the continuation marker
EndsWithMarker(str) ==
    Len(str) >= Len(Ellipsis)
      /\ SubSeq(str, Len(str) - Len(Ellipsis) + 1, Len(str)) = Ellipsis

\* C26: every chunk the segmenter returns except the last ends with "...",
\* and the last chunk does not.
C26_MarkerOnAllButLast ==
    segDone =>
        /\ \A k \in 1..(Len(segOut) - 1) : EndsWithMarker(segOut[k])
        /\ segOut # <<>> => ~EndsWithMarker(segOut[Len(segOut)])

\* C27: no chunk the segmenter returns is empty, and none begins or ends
\* with whitespace.
C27_NoEmptyChunkAllTrimmed ==
    segDone =>
        \A k \in 1..Len(segOut) :
            /\ segOut[k] # <<>>
            /\ segOut[k][1] \notin Whitespace
            /\ segOut[k][Len(segOut[k])] \notin Whitespace

\* pat occurs in str
Contains(str, pat) ==
    \E o \in 0..(Len(str) - Len(pat)) : SubSeq(str, o + 1, o + Len(pat)) = pat

\* C28: a header line and the non-blank sub-item line that follows it, when
\* the two fit together within the limit, are in one chunk (joined by the
\* newline, or by nothing when the sub-item is the last line).
C28_SubItemStaysWithHeader ==
    segDone =>
        LET lines == Lines(segIn)
        IN  \A i \in 1..(Len(lines) - 1) :
                ( /\ isHeader(lines[i])
                  /\ lines[i + 1] # <<>>
                  /\ isSubItem(lines[i + 1], lines[i])
                  /\ Len(lines[i] \o <<"\n">> \o lines[i + 1])
                        <= MAX_TWEET_LENGTH - Len(Ellipsis) )
                => \E k \in 1..Len(segOut) :
                      \/ Contains(segOut[k], lines[i] \o <<"\n">> \o lines[i + 1])
                      \/ Contains(segOut[k], lines[i] \o lines[i + 1])

\* the text has three lines: a header, a sub-item starting with "- " that
\* fits next to it, and a line longer than the limit that is no header
HeaderSubItemLongLine ==
    LET lines == Lines(segIn)
    IN  /\ Len(lines) = 3
        /\ isHeader(lines[1])
        /\ StartsWithDash(lines[2])
        /\ Len(lines[1] \o <<"\n">> \o lines[2]) <= MAX_TWEET_LENGTH - Len(Ellipsis)
        /\ Len(lines[3]) > MAX_TWEET_LENGTH - Len(Ellipsis)
        /\ ~isHeader(lines[3])

RECURSIVE Concat(_)
Concat(strs) == IF strs = <<>> THEN <<>> ELSE Head(strs) \o Concat(Tail(strs))

\* C29: for such a text the first chunk is the header and the sub-item with
\* the marker, and the chunks after it hold the pieces of the long line, each
\* within the limit, every one but the last ending with the marker.
C29_HeaderSubItemThenPieces ==
    (segDone /\ HeaderSubItemLongLine) =>
        LET lines == Lines(segIn)
            n == Len(segOut)
        IN  /\ n >= 2
            /\ segOut[1] = lines[1] \o <<"\n">> \o lines[2] \o <<" ">> \o Ellipsis
            /\ \A k \in 2..n : Len(segOut[k]) <= MAX_TWEET_LENGTH
            /\ \A k \in 2..(n - 1) : EndsWithMarker(segOut[k])
            /\ ~EndsWithMarker(segOut[n])
            /\ ConcatStripped(segOut, 2)
                 = NonWhitespace(Concat(splitLongLine(lines[3],
                                   MAX_TWEET_LENGTH - Len(Ellipsis))))

C29_Witness ==
    /\ segDone
    /\ HeaderSubItemLongLine
    /\ Len(segOut) >= 3
    /\ EndsWithMarker(segOut[2])

\* the characters other than whitespace in the first k strings of strs
Offset(strs, k) == Len(NonWhitespace(Concat(SubSeq(strs, 1, k))))

\* where a line may be cut, counted in characters other than whitespace: at
\* the end of a sentence; in a sentence longer than the limit, between two
\* words; in a word longer than the limit, after every maxLength characters
AllowedCuts(line, maxLength) ==
    LET S == Sentences(line)
    IN  {Offset(S, i) : i \in 0..Len(S)}
          \cup UNION {
                 LET W == Words(S[i])
                     base == Offset(S, i - 1)
                 IN  {base + Offset(W, j) : j \in 0..Len(W)}
                       \cup UNION {
                              {base + Offset(W, j - 1) + m * maxLength :
                                  m \in 0..(Len(W[j]) \div maxLength)} :
                              j \in {h \in 1..Len(W) : Len(W[h]) > maxLength}} :
                 i \in {h \in 1..Len(S) : Len(S[h]) > maxLength}}

\* C30: for every line and every limit of at least 1, once splitLongLine has
\* returned every piece has at most maxLength characters, the pieces hold the
\* characters of the line's sentences in order, and the line is cut at
\* sentence ends, in a sentence longer than the limit between words, and in a
\* word longer than the limit after every maxLength characters.
C30_SplitLongLineWithinLimit ==
    lineOut.done =>
        (/\ \A k \in 1..Len(lineOut.chunks) :
                Len(lineOut.chunks[k]) <= lineIn.maxLength
         /\ NonWhitespace(Concat(lineOut.chunks))
              = NonWhitespace(Concat(Sentences(lineIn.line)))
         /\ {Offset(lineOut.chunks, k) : k \in 0..Len(lineOut.chunks)}
              \subseteq AllowedCuts(lineIn.line, lineIn.maxLength))

\* two sentences, the second with a word of three letters, and the limit 2:
\* the line is cut after the first sentence and the word into slices
C30_Witness ==
    /\ lineOut.done
    /\ lineIn.maxLength = 2
    /\ lineIn.line = <<"a", ".", "a", " ", "a", "a", "a">>
    /\ lineOut.chunks = <<<<"a", ".">>, <<"a">>, <<"a", "a">>, <<"a">>>>

\* the ratio in hundredths, rounded to two decimals, computed in integers
RoundedHundredths(followers, following) ==
    LET den == IF following > 1 THEN following ELSE 1
    IN  (200 * followers + den) \div (2 * den)

\* C31 as stated: the tag is "Influencer-like" exactly when followers exceed
\* 10,000 and followers / max(following, 1), unrounded, exceeds 10; it is
\* "Balanced" in every other case.
C31_TagByExactRatio ==
    insOut.done =>
        LET den == IF insIn.followingCount > 1 THEN insIn.followingCount ELSE 1
        IN  insOut.followerFollowingRatio.context =
                IF insIn.followersCount > 10000 /\ insIn.followersCount > 10 * den
                THEN "Influencer-like" ELSE "Balanced"

\* C31 amended: the tag is "Influencer-like" exactly when followers exceed
\* 10,000 and the ratio followers / max(following, 1), rounded to two
\* decimals, exceeds 10; it is "Balanced" in every other case.
C31_TagByRoundedRatio ==
    insOut.done =>
        insOut.followerFollowingRatio.context =
            IF /\ insIn.followersCount > 10000
               /\ RoundedHundredths(insIn.followersCount, insIn.followingCount) > 1000
            THEN "Influencer-like" ELSE "Balanced"

\* more than 10,000 followers, twenty times the accounts followed
C31_Witness ==
    /\ insOut.done
    /\ insIn.followersCount = 20001
    /\ insIn.followingCount = 1000
    /\ insOut.followerFollowingRatio.context = "Influencer-like"

\* the words of a bio counted as runs of characters that are not whitespace,
\* and its length in UTF-16 code units, a pictograph being two
WordRuns(bio) ==
    Cardinality({j \in DOMAIN bio :
                    /\ bio[j] \notin Whitespace
                    /\ (j = 1 \/ bio[j - 1] \in Whitespace)})
CodeUnits(bio) ==
    Len(bio) + Len(SelectSeq(bio, LAMBDA c : c = "E"))

TallyIn(summary, label) ==
    LET i == CHOOSE j \in DOMAIN summary : summary[j] = label
    IN  DigitsValue(SubSeq(summary, i + 3, FirstIn(summary, i + 3, {","}) - 1))

\* the posts of a list that have a text, and whether a text matches a list
WithText(tweets) == {j \in DOMAIN tweets : tweets[j].text # <<>>}
Matches(text, keywords) == \E k \in keywords : Contains(LowerCase(text), k)

\* C33: the Positive, Neutral and Negative tallies of the summary sum to the
\* number of posts with a text, and the Neutral tally is the number of those
\* whose text matches neither keyword list.
C33_TalliesSumToPostsWithText ==
    insOut.done =>
        LET summary == insOut.content.sentiment
            tweets == insIn.tweets
        IN  /\ TallyIn(summary, "Positive") + TallyIn(summary, "Neutral")
                 + TallyIn(summary, "Negative") = Cardinality(WithText(tweets))
            /\ TallyIn(summary, "Neutral") =
                   Cardinality({j \in WithText(tweets) :
                                   /\ ~Matches(tweets[j].text, PositiveKeywords)
                                   /\ ~Matches(tweets[j].text, NegativeKeywords)})

\* a post without a text next to one whose text matches both lists
C33_Witness ==
    /\ insOut.done
    /\ Len(insIn.tweets) = 2
    /\ insIn.tweets[1].text = <<>>
    /\ Matches(insIn.tweets[2].text, PositiveKeywords)
    /\ Matches(insIn.tweets[2].text, NegativeKeywords)
    /\ TallyIn(insOut.content.sentiment, "Positive") = 1
    /\ TallyIn(insOut.content.sentiment, "Negative") = 0

\* the accounts of the allowlist, whatever the case they are written in
Allowlisted == {"alice", "Alice"}

\* C34: the trusted-follower count is the number of entries of the follower
\* sample whose lowercased handle is in the allowlist, and the writeup is the
\* trusted-account notice exactly when the lowercased username is in the
\* allowlist, whatever the followers are; otherwise it is empty.
C34_TrustedCountAndWriteup ==
    insOut.done =>
        /\ insOut.trustedFollowerCount =
               Cardinality({j \in DOMAIN insIn.follower :
                               insIn.follower[j] \in Allowlisted})
        /\ insOut.writeup = IF insIn.username \in Allowlisted
                            THEN "This user is a trusted account." ELSE ""

\* a subject off the allowlist with two trusted followers, one capitalised
C34_Witness ==
    /\ insOut.done
    /\ insIn.username = "bob"
    /\ insOut.trustedFollowerCount = 2
    /\ insOut.writeup = ""

\* C35: no tick examines candidates before init has loaded the bot's profile
\* and the persisted watermark: a tick that is past the comparison of a
\* candidate with the watermark finds init past both loads.
C35_NoCandidateBeforeInit ==
    \A t \in Slots :
        tick[t].pc \in {"existing", "handleTweet", "send", "wait"}
            => initPc \in {"populate", "done"}

\* the step is the findOne of tick t finding its candidate in the collection:
\* the candidate is skipped as already responded to
SkipsCandidate(t) ==
    /\ tick[t].pc = "existing"
    /\ FindOne(memory, Candidate(t))
    /\ tick'[t] # tick[t]

\* C36: a candidate is skipped as already responded to only if a reply to it
\* was dispatched earlier: a post of the bot is in reply to it.
C36_SkippedOnlyAfterReply ==
    [][\A t \in Slots : SkipsCandidate(t) => RepliesTo(Candidate(t)) # {}]_vars

\* C37: scoring a profile with an empty list of recent posts does not raise:
\* the run returns an analysis whose engagement rate is "0%" and whose
\* posting frequency is "0 tweets/day".
C37_EmptyPostsAreScored ==
    scIn.tweets = <<>> =>
        \A j \in DOMAIN scRuns :
            scRuns[j].fetched =>
                /\ ~scRuns[j].result.error
                /\ scRuns[j].result.analysis.engagement.engagementRate
                       = <<"0", "%">>
                /\ scRuns[j].result.analysis.posting.frequency
                       = <<"0", " tweets/day">>

\* the ids of a list are in the order in which the platform gave them out
InSendOrder(ids) == \A a, b \in DOMAIN ids : a < b => ids[a] < ids[b]

\* C38: a step of a dispatch is the send of the next segment, taken after the
\* send before it has settled and its response was examined; the dispatch
\* ends only when as many sends have settled as there are segments, and the
\* results it then returns are in send order.
C38_DispatchSendsEverySegment ==
    [][\A t \in Slots :
          (tick[t].pc = "send" /\ tick'[t] # tick[t]) =>
              /\ tick[t].k < tick[t].nChunks
              /\ IF tick'[t].pc = "send"
                 THEN /\ tick'[t].k = tick[t].k + 1
                      /\ tick'[t].nChunks = tick[t].nChunks
                 ELSE /\ tick[t].k + 1 = tick[t].nChunks
                      /\ tick'[t].pc = "wait" => InSendOrder(tick'[t].sentTweets)]_vars

\* C39: a tick whose search returns no candidate above the watermark posts
\* nothing, writes no ledger entry and leaves the watermark unchanged: when
\* the search settles, the tick goes on to a candidate only if that candidate
\* is above the watermark (or there is no watermark), and otherwise it ends
\* in that step with the posts, the ledger and the watermark as they were.
C39_NothingAboveWatermarkNoEffect ==
    [][\A t \in Slots :
          (tick[t].pc = "search" /\ tick'[t] # tick[t]) =>
              IF tick'[t].pc = "idle"
              THEN /\ posts' = posts
                   /\ memory' = memory
                   /\ lastCheckedTweetId' = lastCheckedTweetId
              ELSE /\ tick'[t].pc = "existing"
                   /\ \/ lastCheckedTweetId = 0
                      \/ tick'[t].cands[tick'[t].i] > lastCheckedTweetId]_vars

\* the watermark is at the highest mention id, the bot has replied, and a
\* tick is at its search: whatever the search returns is not above the
\* watermark
C39_Witness ==
    /\ lastCheckedTweetId = 10
    /\ posts # {}
    /\ initPc = "done"
    /\ \E t \in Slots : tick[t].pc = "search"

====
